---- MODULE Spec2Model ----
(***************************************************************************)
(* Strava activities updater: the sync run of strava-checker.py (token     *)
(* refresh, fetch, normalise, merge, sort, save) and the one-time          *)
(* authorization flow of authorize.py (callback listener, code hand-off,   *)
(* code exchange, credentials file rewrite).                               *)
(***************************************************************************)
EXTENDS Integers, Sequences, FiniteSets, TLC

\* ------------------------------------------------------------------ bounds
\* longest page of activities a fetch returns
MaxFetch == 2
\* most callback requests the listener serves during one authorization flow
MaxRequests == 2

VARIABLES
  \* ---- persistent files
  envFile,          \* .env : [exists, text], text a sequence of characters
  activitiesFile,   \* activities.json : [state, data]
  \* ---- sync run (strava-checker.py main)
  pc,               \* position of the sync run
  cfg,              \* module globals CLIENT_ID, CLIENT_SECRET, ACCESS_TOKEN, REFRESH_TOKEN
  full_refresh,     \* args.full_refresh
  limit,            \* args.limit
  access_token,     \* main's access_token
  strava_activities,\* the fetched page
  new_activities,   \* main's new_activities
  outcome,          \* how the last sync run ended
  \* ---- bookkeeping of the sync run (observations, not program state)
  refreshCalls,     \* refresh exchanges performed by this run
  fetchCalls,       \* get_activities calls performed by this run
  storeWrites,      \* save_activities calls performed by this run
  fileAtStart,      \* activities file when the run started
  envAtStart,       \* credentials file when the run / flow started
  prevLimit,        \* limit of the previous run if it was incremental and completed, else 0
  replay,           \* this run repeats such a previous run: incremental, same limit, same page fetched
  prevFetched,      \* the page that previous run fetched
  \* ---- authorization flow (authorize.py main) and its listener thread
  apc,              \* position of the main flow
  acfg,             \* authorize.py's globals CLIENT_ID, CLIENT_SECRET
  server,           \* main's `server` is not None
  httpd,            \* [bound, shutdown_request, is_shut_down]
  lpc,              \* position of the serve_forever thread
  request,          \* request being handled by do_GET
  served,           \* requests served during this flow
  auth_queue,       \* Queue of codes
  firstCode,        \* the first code do_GET put on the queue in this flow
  code,             \* main's `code`
  token_response,   \* main's token_response
  pending,          \* exception travelling through finally
  authOutcome,      \* how the last authorization flow ended
  exchangeCalls,    \* exchange_code_for_token calls of this flow
  envWrites,        \* update_env_file calls that wrote the file, this run / flow
  lastWrite,        \* [before, tokens] of the last update_env_file that wrote
  persisted         \* the refresh token handed to the last update_env_file, over all runs

persistentVars == <<envFile, activitiesFile>>
syncVars == <<pc, cfg, full_refresh, limit, access_token, strava_activities,
              new_activities, outcome, refreshCalls, fetchCalls, storeWrites,
              fileAtStart, prevLimit, replay, prevFetched>>
authVars == <<apc, acfg, server, httpd, lpc, request, served, auth_queue, firstCode, code,
              token_response, pending, authOutcome, exchangeCalls>>
obsVars == <<envAtStart, envWrites, lastWrite, persisted>>
vars == <<persistentVars, syncVars, authVars, obsVars>>

\* ------------------------------------------------------------ characters
\* Strings that are compared or concatenated are sequences of characters;
\* a character is its code point, except that each fixed word of the
\* credentials file (a key name, a value) is one symbol.
Digit(d) == 48 + d

\* str(datetime): fixed width, zero padded
FormatDate(t) == <<Digit(t \div 10), Digit(t % 10)>>

\* Python's str < str : lexicographic by code point, a proper prefix is smaller
RECURSIVE StrLess(_, _)
StrLess(a, b) ==
  IF a = <<>> THEN b # <<>>
  ELSE IF b = <<>> THEN FALSE
  ELSE IF Head(a) < Head(b) THEN TRUE
  ELSE IF Head(a) > Head(b) THEN FALSE
  ELSE StrLess(Tail(a), Tail(b))

StrLeq(a, b) == a = b \/ StrLess(a, b)

\* ------------------------------------------------- Python values and JSON
\* An attribute of a fetched activity object: absent, None, a number, a
\* datetime (v its instant), a string, an object no conversion accepts, or
\* the float infinity.
Attr(k, v, s) == [k |-> k, v |-> v, s |-> s]
Absent == Attr("absent", 0, "")
None == Attr("none", 0, "")
Num(n) == Attr("num", n, "")
Date(t) == Attr("date", t, "")
Text(s) == Attr("str", 0, s)
Bad == Attr("bad", 0, "")
Inf == Attr("inf", 0, "")

\* A JSON value of a stored record
JNull == [k |-> "null", v |-> 0, s |-> ""]
JInt(n) == [k |-> "int", v |-> n, s |-> ""]
JFloat(n) == [k |-> "float", v |-> n, s |-> ""]
JStr(s) == [k |-> "str", v |-> 0, s |-> s]
JBool(b) == [k |-> "bool", v |-> IF b THEN 1 ELSE 0, s |-> ""]
JInfinity == [k |-> "float", v |-> 0, s |-> "Infinity"]

hasattr(activity, attr) == activity[attr].k # "absent"

\* truth value of an attribute value
Truthy(x) ==
  CASE x.k = "none" -> FALSE
    [] x.k = "num" -> x.v # 0
    [] x.k = "str" -> x.s # ""
    [] OTHER -> TRUE

\* int(x), float(x) raise on a missing attribute, None, text and foreign objects
NumRaises(x) == x.k \in {"absent", "none", "str", "date", "bad"}
\* int(float('inf')) raises OverflowError
IntOverflows(x) == x.k = "inf"
\* str(x) raises only when the attribute is missing
StrRaises(x) == x.k = "absent"

\* str(x) of a name-like attribute
PyStr(x) ==
  CASE x.k = "str" -> x.s
    [] x.k = "none" -> "None"
    [] x.k = "num" -> ToString(x.v)
    [] x.k = "date" -> ToString(x.v)
    [] x.k = "inf" -> "inf"
    [] OTHER -> "<object>"

\* str(x) of start_date_local, as characters ("None" is <<78,111,110,101>>)
PyStrChars(x) ==
  CASE x.k = "date" -> FormatDate(x.v)
    [] x.k = "num" -> FormatDate(x.v)
    [] x.k = "none" -> <<78, 111, 110, 101>>
    [] OTHER -> <<60, 62>>

float_properties == {"total_elevation_gain", "average_speed", "max_speed",
                     "average_heartrate", "max_heartrate", "average_cadence",
                     "average_watts", "calories"}
int_properties == {"kudos_count", "achievement_count", "athlete_count"}
str_properties == {"gear_id", "device_name"}
bool_properties == {"private", "commute"}
core_properties == {"id", "name", "start_date_local", "type", "distance",
                    "moving_time", "elapsed_time"}

\* lines 249-257: an optional float
OptFloat(x) ==
  IF x.k = "absent" \/ x.k = "none" THEN JNull
  ELSE IF NumRaises(x) THEN JNull
       ELSE IF x.k = "inf" THEN JInfinity ELSE JFloat(x.v)
\* a count that is null when the attribute is None
OptIntNullable(x) ==
  IF x.k = "absent" THEN JInt(0)
  ELSE IF x.k = "none" THEN JNull
       ELSE IF NumRaises(x) THEN JInt(0) ELSE JInt(x.v)
\* lines 266-274: an optional count
OptInt(x) ==
  IF x.k = "absent" \/ x.k = "none" THEN JInt(0)
  ELSE IF NumRaises(x) THEN JInt(0) ELSE JInt(x.v)
\* lines 282-290: an optional string
OptStr(x) ==
  IF x.k = "absent" \/ x.k = "none" THEN JNull ELSE JStr(PyStr(x))
\* lines 298-306: an optional flag
OptBool(x) ==
  IF x.k = "absent" \/ x.k = "none" THEN JBool(FALSE) ELSE JBool(Truthy(x))

\* lines 232-234: `conv(a.f) if hasattr(a, f) and a.f else default`
CoreNumRaises(x) == x.k # "absent" /\ Truthy(x) /\ NumRaises(x)
CoreIntRaises(x) == x.k # "absent" /\ Truthy(x) /\ (NumRaises(x) \/ IntOverflows(x))
CoreFloat(x) ==
  IF x.k # "absent" /\ Truthy(x)
  THEN IF x.k = "inf" THEN JInfinity ELSE JFloat(x.v)
  ELSE JFloat(0)
CoreInt(x) == IF x.k # "absent" /\ Truthy(x) THEN JInt(x.v) ELSE JInt(0)

\* the four conversions both the try block and the except block perform
BaseRaises(activity) ==
  \/ NumRaises(activity.id) \/ IntOverflows(activity.id)
  \/ StrRaises(activity.name)
  \/ StrRaises(activity.start_date_local)
  \/ StrRaises(activity.type)

\* lines 227-235 raise, or an optional count raises the OverflowError that the
\* handler of line 273 does not catch
TryRaises(activity) ==
  \/ BaseRaises(activity)
  \/ CoreNumRaises(activity.distance)
  \/ CoreIntRaises(activity.moving_time)
  \/ CoreIntRaises(activity.elapsed_time)
  \/ \E key \in int_properties : IntOverflows(activity[key])

\* lines 313-321: the minimal record
MinimalDict(activity) ==
  [id |-> activity.id.v,
   name |-> JStr(PyStr(activity.name)),
   start_date_local |-> PyStrChars(activity.start_date_local),
   type |-> JStr(PyStr(activity.type)),
   distance |-> JFloat(0),
   moving_time |-> JInt(0),
   elapsed_time |-> JInt(0)]

\* lines 227-308: the full record
FullDict(activity) ==
  [id |-> activity.id.v,
   name |-> JStr(PyStr(activity.name)),
   start_date_local |-> PyStrChars(activity.start_date_local),
   type |-> JStr(PyStr(activity.type)),
   distance |-> CoreFloat(activity.distance),
   moving_time |-> CoreInt(activity.moving_time),
   elapsed_time |-> CoreInt(activity.elapsed_time)]
  @@ [key \in float_properties |-> OptFloat(activity[key])]
  @@ [key \in int_properties |-> OptInt(activity[key])]
  @@ [key \in str_properties |-> OptStr(activity[key])]
  @@ [key \in bool_properties |-> OptBool(activity[key])]

\* a conversion without the except block of lines 310-321
activity_to_dictNoFallback(activity) ==
  IF ~TryRaises(activity) THEN [raised |-> FALSE, result |-> FullDict(activity)]
  ELSE [raised |-> TRUE, result |-> <<>>]

\* activity_to_dict: [raised, result]
activity_to_dict(activity) ==
  IF ~TryRaises(activity) THEN [raised |-> FALSE, result |-> FullDict(activity)]
  ELSE IF ~BaseRaises(activity)
       THEN [raised |-> FALSE, result |-> MinimalDict(activity)]
       ELSE [raised |-> TRUE, result |-> <<>>]

\* ------------------------------------------------------- activities store
\* activities.json: absent, present but not JSON, or a JSON array of records
AbsentStore == [state |-> "absent", data |-> <<>>]
CorruptStore == [state |-> "corrupt", data |-> <<>>]
JsonStore(records) == [state |-> "json", data |-> records]

load_existing_activities(file) ==
  IF file.state = "json" THEN file.data ELSE <<>>

save_activities(activities) == JsonStore(activities)

\* line 381
ExistingIds(existing_activities) ==
  {existing_activities[i].id :
     i \in {j \in 1..Len(existing_activities) : "id" \in DOMAIN existing_activities[j]}}

\* line 401: the sort key x.get('start_date_local', '')
SortKey(x) == IF "start_date_local" \in DOMAIN x THEN x.start_date_local ELSE <<>>

\* insertion behind every element whose key is not greater: a stable sort
RECURSIVE InsertSorted(_, _)
InsertSorted(sorted, x) ==
  IF sorted = <<>> THEN <<x>>
  ELSE IF StrLess(SortKey(x), SortKey(Head(sorted)))
       THEN <<x>> \o sorted
       ELSE <<Head(sorted)>> \o InsertSorted(Tail(sorted), x)

RECURSIVE SortFrom(_, _)
SortFrom(sorted, rest) ==
  IF rest = <<>> THEN sorted
  ELSE SortFrom(InsertSorted(sorted, Head(rest)), Tail(rest))

\* the list left in the order of the merge
SortActivitiesSkipped(activities) == activities

\* list.sort(key=...) of line 401
SortActivities(activities) == SortFrom(<<>>, activities)

\* the loop with the membership test of line 387 left out
RECURSIVE NewActivitiesNoDedup(_, _)
NewActivitiesNoDedup(fetched, existing_ids) ==
  IF fetched = <<>> THEN <<>>
  ELSE LET d == activity_to_dict(Head(fetched))
           rest == NewActivitiesNoDedup(Tail(fetched), existing_ids)
       IN IF d.raised THEN rest ELSE <<d.result>> \o rest

\* the loop that ends at the first activity whose conversion raises
RECURSIVE NewActivitiesStopsAtFailure(_, _)
NewActivitiesStopsAtFailure(fetched, existing_ids) ==
  IF fetched = <<>> THEN <<>>
  ELSE LET d == activity_to_dict(Head(fetched))
           rest == NewActivitiesStopsAtFailure(Tail(fetched), existing_ids)
       IN IF d.raised THEN <<>>
          ELSE IF d.result.id \notin existing_ids THEN <<d.result>> \o rest
          ELSE rest

\* lines 383-391: the loop over the fetched page
RECURSIVE NewActivities(_, _)
NewActivities(fetched, existing_ids) ==
  IF fetched = <<>> THEN <<>>
  ELSE LET d == activity_to_dict(Head(fetched))
           rest == NewActivities(Tail(fetched), existing_ids)
       IN IF d.raised THEN rest
          ELSE IF d.result.id \notin existing_ids THEN <<d.result>> \o rest
          ELSE rest

\* the store loaded whatever the mode
ExistingActivitiesAlwaysLoaded(file, full) == load_existing_activities(file)

\* lines 373-381: what the run merges into
ExistingActivities(file, full) ==
  IF full THEN <<>> ELSE load_existing_activities(file)

\* a run that saves whether or not it found anything
WritesStoreAlways(new, full) == TRUE
\* a merge that keeps only what was fetched
UpdatedActivitiesNewOnly(existing, new, full) == SortActivities(new)

\* lines 393-399: whether the run writes, and what
WritesStore(new, full) == new # <<>> \/ full
UpdatedActivities(existing, new, full) ==
  SortActivities(IF full THEN new ELSE existing \o new)

\* -------------------------------------------------------- credentials file
NL == "\n"
EQ == "="

\* file.readlines(): the lines, each keeping its newline; the last may lack one
RECURSIVE SplitLines(_, _)
SplitLines(text, cur) ==
  IF text = <<>> THEN (IF cur = <<>> THEN <<>> ELSE <<cur>>)
  ELSE IF Head(text) = NL
       THEN <<Append(cur, NL)>> \o SplitLines(Tail(text), <<>>)
       ELSE SplitLines(Tail(text), Append(cur, Head(text)))

readlines(file) == IF file.exists THEN SplitLines(file.text, <<>>) ELSE <<>>

\* file.writelines(lines): the lines one after the other, nothing added
RECURSIVE Concat(_)
Concat(lines) == IF lines = <<>> THEN <<>> ELSE Head(lines) \o Concat(Tail(lines))

writelines(lines) == [exists |-> TRUE, text |-> Concat(lines)]

startswith(line, prefix) ==
  Len(line) >= Len(prefix) /\ SubSeq(line, 1, Len(prefix)) = prefix

AccessLine(tokens) == <<"ACCESS_TOKEN", EQ, tokens.access_token, NL>>
RefreshLine(tokens) == <<"REFRESH_TOKEN", EQ, tokens.refresh_token, NL>>

\* lines 165-173: the loop over the existing lines
RECURSIVE RewriteLines(_, _)
RewriteLines(lines, tokens) ==
  IF lines = <<>> THEN <<>>
  ELSE LET line == Head(lines)
           rest == RewriteLines(Tail(lines), tokens)
       IN IF startswith(line, <<"ACCESS_TOKEN", EQ>>)
          THEN <<AccessLine(tokens)>> \o rest
          ELSE IF startswith(line, <<"REFRESH_TOKEN", EQ>>)
               THEN <<RefreshLine(tokens)>> \o rest
               ELSE <<line>> \o rest

\* tokens_updated[key] after the loop
TokensUpdated(lines, key) ==
  \E i \in 1..Len(lines) : startswith(lines[i], <<key, EQ>>)

\* an update that writes the access token and leaves the refresh token line alone
update_env_fileAccessOnly(file, tokens) ==
  LET lines == readlines(file)
      kept == [i \in 1..Len(lines) |->
                 IF startswith(lines[i], <<"ACCESS_TOKEN", EQ>>)
                 THEN AccessLine(tokens) ELSE lines[i]]
  IN writelines(IF TokensUpdated(lines, "ACCESS_TOKEN") THEN kept
                ELSE Append(kept, AccessLine(tokens)))

\* update_env_file: the new contents of the file
update_env_file(file, tokens) ==
  LET lines == readlines(file)
      kept == RewriteLines(lines, tokens)
      withAccess == IF TokensUpdated(lines, "ACCESS_TOKEN") THEN kept
                    ELSE Append(kept, AccessLine(tokens))
      new_lines == IF TokensUpdated(lines, "REFRESH_TOKEN") THEN withAccess
                   ELSE Append(withAccess, RefreshLine(tokens))
  IN writelines(new_lines)

\* load_dotenv(): a line binds KEY to the rest of the line behind '=', leading
\* blanks and the newline stripped; other lines (comments, blanks) bind nothing
RECURSIVE StripLeft(_)
StripLeft(line) ==
  IF line # <<>> /\ Head(line) = " " THEN StripLeft(Tail(line)) ELSE line

StripNewline(line) ==
  IF line # <<>> /\ line[Len(line)] = NL THEN SubSeq(line, 1, Len(line) - 1) ELSE line

IsBinding(line) ==
  LET l == StripLeft(StripNewline(line))
  IN Len(l) >= 2 /\ l[1] \notin {"#", EQ} /\ l[2] = EQ

BindingKey(line) == StripLeft(StripNewline(line))[1]
BindingValue(line) ==
  LET l == StripLeft(StripNewline(line)) IN SubSeq(l, 3, Len(l))

\* os.getenv(key) after load_dotenv(): the last binding of the key, else nothing
getenv(file, key) ==
  LET lines == readlines(file)
      hits == {i \in 1..Len(lines) : IsBinding(lines[i]) /\ BindingKey(lines[i]) = key}
  IN IF hits = {} THEN <<>>
     ELSE BindingValue(lines[CHOOSE i \in hits : \A j \in hits : j <= i])

\* lines 77-80 (authorize.py 26-27): the module globals
LoadConfig(file) ==
  [CLIENT_ID |-> getenv(file, "CLIENT_ID"),
   CLIENT_SECRET |-> getenv(file, "CLIENT_SECRET"),
   ACCESS_TOKEN |-> getenv(file, "ACCESS_TOKEN"),
   REFRESH_TOKEN |-> getenv(file, "REFRESH_TOKEN")]

\* all([CLIENT_ID, CLIENT_SECRET])
HasClient(c) == c.CLIENT_ID # <<>> /\ c.CLIENT_SECRET # <<>>

\* ------------------------------------------------------------------ inputs
\* A fetched activity with every attribute present and convertible
BaseActivity(id, t, name) ==
  [id |-> Num(id), name |-> Text(name), start_date_local |-> Date(t),
   type |-> Text("Ride"), distance |-> Num(5), moving_time |-> Num(60),
   elapsed_time |-> Num(70)]
  @@ [key \in float_properties |-> Num(3)]
  @@ [key \in int_properties |-> Num(2)]
  @@ [key \in str_properties |-> Text("g1")]
  @@ [key \in bool_properties |-> Num(1)]

Ride10 == BaseActivity(10, 2, "morning ride")
\* an earlier activity, some optional attributes missing or None
Run11 == [BaseActivity(11, 1, "evening run") EXCEPT
            !.average_watts = Absent, !.kudos_count = None, !.commute = Absent]
\* the activity of id 10 as the provider reports it after an edit; its distance
\* is an object float() rejects, so the record degrades to its core
Ride10Edited == [BaseActivity(10, 10, "renamed ride") EXCEPT !.distance = Bad]
\* no usable id: the activity cannot be converted at all
Broken == [BaseActivity(13, 1, "broken") EXCEPT !.id = None]

Activities == {Ride10, Run11, Ride10Edited, Broken}

\* client.get_activities(limit=n): at most n activities, in any order
Pages(n) == UNION {[1..k -> Activities] : k \in 0..n}

\* what the token endpoint may answer
NoTokens == [access_token |-> "", refresh_token |-> ""]
TokenResponses == {[access_token |-> "a1", refresh_token |-> "r1"],
                   [access_token |-> "a2", refresh_token |-> "r2"]}

\* credentials files an operator may have left behind
ClientLines == <<"CLIENT_ID", EQ, "cid", NL, "CLIENT_SECRET", EQ, "sec", NL>>
OldTokenLines == <<"ACCESS_TOKEN", EQ, "a0", NL, "REFRESH_TOKEN", EQ, "r0", NL>>
EnvText(text) == [exists |-> TRUE, text |-> text]
NoEnvFile == [exists |-> FALSE, text |-> <<>>]
EnvFresh == EnvText(ClientLines)
EnvAuthorized == EnvText(ClientLines \o OldTokenLines)
EnvNoSecret == EnvText(<<"CLIENT_ID", EQ, "cid", NL>> \o OldTokenLines)
\* the last line is not terminated
EnvNoNewline == EnvText(<<"CLIENT_ID", EQ, "cid", NL, "CLIENT_SECRET", EQ, "sec">>)
\* tokens first, a comment line, a blank line
EnvMixed == EnvText(<<"ACCESS_TOKEN", EQ, "a0", NL, "#", "tokens", NL>> \o ClientLines
                    \o <<NL, "REFRESH_TOKEN", EQ, "r0", NL>>)
\* ACCESS_TOKEN listed twice
EnvDuplicate == EnvText(ClientLines \o <<"ACCESS_TOKEN", EQ, "a9", NL>> \o OldTokenLines)
\* an indented token line
EnvIndented == EnvText(ClientLines \o <<" ", "REFRESH_TOKEN", EQ, "r0", NL>>)

SyncEnvFiles == {EnvAuthorized, EnvFresh, EnvNoSecret}
AuthEnvFiles == {NoEnvFile, EnvFresh, EnvAuthorized, EnvNoSecret, EnvNoNewline,
                 EnvMixed, EnvDuplicate, EnvIndented}

\* ------------------------------------------------------------------- Init
InitSyncVars ==
  /\ pc = "idle"
  /\ cfg = LoadConfig(NoEnvFile)
  /\ full_refresh = FALSE
  /\ limit = 0
  /\ access_token = ""
  /\ strava_activities = <<>>
  /\ new_activities = <<>>
  /\ outcome = "none"
  /\ refreshCalls = 0
  /\ fetchCalls = 0
  /\ storeWrites = 0
  /\ fileAtStart = activitiesFile
  /\ prevLimit = 0
  /\ replay = FALSE
  /\ prevFetched = <<>>

InitAuthVars ==
  /\ apc = "idle"
  /\ acfg = LoadConfig(NoEnvFile)
  /\ server = FALSE
  /\ httpd = [bound |-> FALSE, shutdown_request |-> FALSE, is_shut_down |-> FALSE]
  /\ lpc = "none"
  /\ request = <<>>
  /\ served = 0
  /\ auth_queue = <<>>
  /\ firstCode = ""
  /\ code = ""
  /\ token_response = NoTokens
  /\ pending = "none"
  /\ authOutcome = "none"
  /\ exchangeCalls = 0

InitObsVars ==
  /\ envAtStart = envFile
  /\ envWrites = 0
  /\ lastWrite = [before |-> NoEnvFile, tokens |-> NoTokens]
  /\ persisted = getenv(envFile, "REFRESH_TOKEN")

\* the sync program alone: any of the stores a first run can find
InitSync ==
  /\ envFile \in SyncEnvFiles
  /\ activitiesFile \in {AbsentStore, CorruptStore, JsonStore(<<>>)}
  /\ InitSyncVars /\ InitAuthVars /\ InitObsVars

\* ------------------------------------------- strava-checker.py: main()
\* lines 341-353 (and the module's load of the credentials, lines 72-80)
SyncStart(full, lim, again) ==
  /\ pc = "idle" /\ apc = "idle"
  /\ again => (~full /\ lim = prevLimit)
  /\ cfg' = LoadConfig(envFile)
  /\ full_refresh' = full
  /\ limit' = lim
  /\ access_token' = ""
  /\ strava_activities' = <<>>
  /\ new_activities' = <<>>
  /\ refreshCalls' = 0 /\ fetchCalls' = 0 /\ storeWrites' = 0 /\ envWrites' = 0
  /\ fileAtStart' = activitiesFile
  /\ envAtStart' = envFile
  /\ replay' = again
  /\ prevFetched' = IF again THEN prevFetched ELSE <<>>
  /\ outcome' = "running"
  /\ pc' = "verify"
  /\ UNCHANGED <<persistentVars, authVars, lastWrite, persisted, prevLimit>>

\* what a failed check or a failed get_token leaves behind (lines 134-146, 407-408)
ConfigurationError(calls) ==
  /\ refreshCalls' = refreshCalls + calls
  /\ pc' = "exit"
  /\ outcome' = "ConfigurationError"
  /\ UNCHANGED <<persistentVars, cfg, full_refresh, limit, access_token,
                 strava_activities, new_activities, fetchCalls, storeWrites,
                 fileAtStart, prevLimit, replay, prevFetched, authVars,
                 obsVars>>

\* a check that lets a run without the client id or secret go on
VerifyFailedProceeds ==
  /\ pc = "verify"
  /\ ~HasClient(cfg)
  /\ pc' = "get_token"
  /\ UNCHANGED <<persistentVars, cfg, full_refresh, limit, access_token,
                 strava_activities, new_activities, outcome, refreshCalls,
                 fetchCalls, storeWrites, fileAtStart, prevLimit, replay, prevFetched, authVars, obsVars>>

\* lines 346-347: the client id or secret is missing
VerifyFailed ==
  /\ pc = "verify"
  /\ ~HasClient(cfg)
  /\ ConfigurationError(0)

\* lines 346-356: both are there, on to get_token
VerifyOk ==
  /\ pc = "verify"
  /\ HasClient(cfg)
  /\ pc' = "get_token"
  /\ UNCHANGED <<persistentVars, cfg, full_refresh, limit, access_token,
                 strava_activities, new_activities, outcome, refreshCalls,
                 fetchCalls, storeWrites, fileAtStart, prevLimit, replay, prevFetched, authVars, obsVars>>

\* get_token, lines 118-132: the refresh exchange succeeds and is persisted
GetTokenRefreshed(tokens) ==
  /\ pc = "get_token"
  /\ cfg.REFRESH_TOKEN # <<>>
  /\ refreshCalls' = refreshCalls + 1
  /\ envFile' = update_env_file(envFile, tokens)
  /\ envWrites' = envWrites + 1
  /\ lastWrite' = [before |-> envFile, tokens |-> tokens]
  /\ persisted' = <<tokens.refresh_token>>
  /\ access_token' = tokens.access_token
  /\ pc' = "fetch"
  /\ UNCHANGED <<activitiesFile, cfg, full_refresh, limit, strava_activities,
                 new_activities, outcome, fetchCalls, storeWrites, fileAtStart,
                 prevLimit, replay, prevFetched, authVars, envAtStart>>

\* a rejected exchange that is tried again
GetTokenRejectedRetried ==
  /\ pc = "get_token"
  /\ cfg.REFRESH_TOKEN # <<>>
  /\ refreshCalls' = refreshCalls + 1
  /\ UNCHANGED <<persistentVars, pc, cfg, full_refresh, limit, access_token,
                 strava_activities, new_activities, outcome, fetchCalls, storeWrites,
                 fileAtStart, prevLimit, replay, prevFetched, authVars, obsVars>>

\* lines 122-126 raise: the provider rejects the refresh exchange
GetTokenRejected ==
  /\ pc = "get_token"
  /\ cfg.REFRESH_TOKEN # <<>>
  /\ ConfigurationError(1)

\* lines 138-140: no refresh token
GetTokenMissing ==
  /\ pc = "get_token"
  /\ cfg.REFRESH_TOKEN = <<>>
  /\ ConfigurationError(0)

\* lines 359-364: the fetch returns a page
FetchOk(page) ==
  /\ pc = "fetch"
  /\ Len(page) <= limit
  /\ replay => page = prevFetched
  /\ fetchCalls' = fetchCalls + 1
  /\ strava_activities' = page
  /\ pc' = "process"
  /\ UNCHANGED <<persistentVars, cfg, full_refresh, limit, access_token,
                 new_activities, outcome, refreshCalls, storeWrites, fileAtStart,
                 prevLimit, replay, prevFetched, authVars, obsVars>>

\* a failed fetch that still saves what a full refresh starts from
FetchFailedStoreCleared ==
  /\ pc = "fetch"
  /\ fetchCalls' = fetchCalls + 1
  /\ pc' = "exit"
  /\ outcome' = "FetchError"
  /\ activitiesFile' = IF full_refresh THEN save_activities(<<>>) ELSE activitiesFile
  /\ UNCHANGED <<envFile, cfg, full_refresh, limit, access_token,
                 strava_activities, new_activities, refreshCalls, storeWrites,
                 fileAtStart, prevLimit, replay, prevFetched, authVars, obsVars>>

\* lines 366-368: the fetch raises
FetchFailed ==
  /\ pc = "fetch"
  /\ fetchCalls' = fetchCalls + 1
  /\ pc' = "exit"
  /\ outcome' = "FetchError"
  /\ UNCHANGED <<persistentVars, cfg, full_refresh, limit, access_token,
                 strava_activities, new_activities, refreshCalls, storeWrites,
                 fileAtStart, prevLimit, replay, prevFetched, authVars, obsVars>>

\* a load whose decode error is not caught: the run ends at line 409
ProcessActivitiesDecodeAborts ==
  /\ pc = "process"
  /\ LET unreadable == ~full_refresh /\ activitiesFile = CorruptStore
         existing_activities == ExistingActivities(activitiesFile, full_refresh)
         existing_ids == ExistingIds(existing_activities)
         new == IF unreadable THEN <<>> ELSE NewActivities(strava_activities, existing_ids)
     IN /\ new_activities' = new
        /\ outcome' = IF unreadable THEN "Error" ELSE "Completed"
        /\ IF ~unreadable /\ WritesStore(new, full_refresh)
           THEN /\ activitiesFile' =
                     save_activities(UpdatedActivities(existing_activities, new, full_refresh))
                /\ storeWrites' = storeWrites + 1
           ELSE UNCHANGED <<activitiesFile, storeWrites>>
  /\ pc' = "exit"
  /\ UNCHANGED <<envFile, cfg, full_refresh, limit, access_token, strava_activities,
                 refreshCalls, fetchCalls, fileAtStart, prevLimit, replay, prevFetched, authVars, obsVars>>

\* lines 373-405: normalise, merge, sort, save
ProcessActivities ==
  /\ pc = "process"
  /\ LET existing_activities == ExistingActivities(activitiesFile, full_refresh)
         existing_ids == ExistingIds(existing_activities)
         new == NewActivities(strava_activities, existing_ids)
     IN /\ new_activities' = new
        /\ IF WritesStore(new, full_refresh)
           THEN /\ activitiesFile' =
                     save_activities(UpdatedActivities(existing_activities, new, full_refresh))
                /\ storeWrites' = storeWrites + 1
           ELSE UNCHANGED <<activitiesFile, storeWrites>>
  /\ pc' = "exit"
  /\ outcome' = "Completed"
  /\ UNCHANGED <<envFile, cfg, full_refresh, limit, access_token, strava_activities,
                 refreshCalls, fetchCalls, fileAtStart, prevLimit, replay, prevFetched, authVars, obsVars>>

\* the process ends (line 413 returns): nothing but the two files survives it
SyncExit ==
  /\ pc = "exit"
  /\ pc' = "idle"
  /\ prevLimit' = IF outcome = "Completed" /\ ~full_refresh THEN limit ELSE 0
  /\ prevFetched' = IF outcome = "Completed" /\ ~full_refresh THEN strava_activities ELSE <<>>
  /\ cfg' = LoadConfig(NoEnvFile)
  /\ full_refresh' = FALSE
  /\ limit' = 0
  /\ access_token' = ""
  /\ strava_activities' = <<>>
  /\ new_activities' = <<>>
  /\ outcome' = "none"
  /\ refreshCalls' = 0 /\ fetchCalls' = 0 /\ storeWrites' = 0 /\ envWrites' = 0
  /\ fileAtStart' = activitiesFile
  /\ envAtStart' = envFile
  /\ replay' = FALSE
  /\ lastWrite' = [before |-> NoEnvFile, tokens |-> NoTokens]
  /\ UNCHANGED <<persistentVars, authVars, persisted>>

NextSync ==
  \/ \E full \in BOOLEAN, lim \in 1..MaxFetch, again \in BOOLEAN : SyncStart(full, lim, again)
  \/ VerifyFailed
  \/ VerifyOk
  \/ SyncExit
  \/ \E tokens \in TokenResponses : GetTokenRefreshed(tokens)
  \/ GetTokenRejected
  \/ GetTokenMissing
  \/ \E page \in Pages(MaxFetch) : FetchOk(page)
  \/ FetchFailed
  \/ ProcessActivities

SpecSync == InitSync /\ [][NextSync]_vars

\* ------------------------------------------- activity_to_dict on its own
optional_properties ==
  float_properties \cup int_properties \cup str_properties \cup bool_properties

\* a complete activity whose attributes in `attrs` all have the value x
ActivityWith(attrs, x) ==
  [key \in DOMAIN BaseActivity(12, 3, "lunch ride") |->
     IF key \in attrs THEN x ELSE BaseActivity(12, 3, "lunch ride")[key]]

\* every set of optional attributes missing, or every such set None
SparseActivities ==
  {ActivityWith(attrs, x) : attrs \in SUBSET optional_properties, x \in {Absent, None}}

\* attributes of each kind holding a value a conversion does not accept
FaultyAttributes ==
  {"id", "distance", "moving_time", "average_watts", "kudos_count", "gear_id", "private"}
FaultyActivities ==
  {ActivityWith(attrs, x) : attrs \in SUBSET FaultyAttributes, x \in {Bad, Inf}}

\* a run at line 383: the token was refreshed and one activity was fetched
InitConvert ==
  /\ envFile = update_env_file(EnvAuthorized, [access_token |-> "a1", refresh_token |-> "r1"])
  /\ activitiesFile = AbsentStore
  /\ pc = "process"
  /\ cfg = LoadConfig(EnvAuthorized)
  /\ full_refresh = FALSE
  /\ limit = 1
  /\ access_token = "a1"
  /\ strava_activities \in {<<activity>> : activity \in SparseActivities \cup FaultyActivities}
  /\ new_activities = <<>>
  /\ outcome = "running"
  /\ refreshCalls = 1 /\ fetchCalls = 1 /\ storeWrites = 0
  /\ fileAtStart = AbsentStore
  /\ prevLimit = 0
  /\ replay = FALSE
  /\ prevFetched = <<>>
  /\ InitAuthVars
  /\ envAtStart = EnvAuthorized
  /\ envWrites = 1
  /\ lastWrite = [before |-> EnvAuthorized,
                  tokens |-> [access_token |-> "a1", refresh_token |-> "r1"]]
  /\ persisted = <<"r1">>

NextConvert == ProcessActivities

SpecConvert == InitConvert /\ [][NextConvert]_vars

\* ------------------------------------------------ authorize.py: main()
\* the values of the `code` parameter in the query string of a callback request
Requests == {<<>>, <<"">>, <<"c1">>, <<"c2", "c1">>}

\* urllib.parse.parse_qs(...)['code']: blank values are dropped
RECURSIVE NonBlank(_)
NonBlank(values) ==
  IF values = <<>> THEN <<>>
  ELSE IF Head(values) = "" THEN NonBlank(Tail(values))
       ELSE <<Head(values)>> \o NonBlank(Tail(values))

\* 'code' in query_components
HasCode(req) == NonBlank(req) # <<>>

\* a handler that puts the newest code in front of the others
do_GETNewestFirst(queue, req) ==
  IF HasCode(req) THEN <<NonBlank(req)[1]>> \o queue ELSE queue

\* lines 34-43: do_GET, its effect on the queue
do_GET(queue, req) ==
  IF HasCode(req) THEN Append(queue, NonBlank(req)[1]) ELSE queue

InitAuth ==
  /\ envFile \in AuthEnvFiles
  /\ activitiesFile = AbsentStore
  /\ InitSyncVars /\ InitAuthVars /\ InitObsVars

\* the process starts: lines 23-27, 93
AuthStart ==
  /\ apc = "idle" /\ pc = "idle"
  /\ acfg' = LoadConfig(envFile)
  /\ apc' = "verify"
  /\ authOutcome' = "running"
  /\ envAtStart' = envFile
  /\ envWrites' = 0
  /\ prevLimit' = 0
  /\ prevFetched' = <<>>
  /\ UNCHANGED <<persistentVars, pc, cfg, full_refresh, limit, access_token,
                 strava_activities, new_activities, outcome, refreshCalls,
                 fetchCalls, storeWrites, fileAtStart, replay, server, httpd, lpc,
                 request, served, auth_queue, firstCode, code, token_response, pending,
                 exchangeCalls, lastWrite, persisted>>

\* lines 94-95: the client id or secret is missing
AuthVerifyFailed ==
  /\ apc = "verify"
  /\ ~HasClient(acfg)
  /\ apc' = "exit"
  /\ authOutcome' = "ValueError"
  /\ UNCHANGED <<persistentVars, syncVars, acfg, server, httpd, lpc, request, served,
                 auth_queue, firstCode, code, token_response, pending, exchangeCalls, obsVars>>

\* lines 97-104, 45-50: the listener is bound and its thread started
AuthServerStarted ==
  /\ apc = "verify"
  /\ HasClient(acfg)
  /\ httpd' = [bound |-> TRUE, shutdown_request |-> FALSE, is_shut_down |-> FALSE]
  /\ lpc' = "serve"
  /\ server' = TRUE
  /\ apc' = "open"
  /\ UNCHANGED <<persistentVars, syncVars, acfg, request, served, auth_queue, firstCode, code,
                 token_response, pending, authOutcome, exchangeCalls, obsVars>>

\* line 45 raises (the port is taken): `server` stays None, finally does nothing
AuthBindFailed ==
  /\ apc = "verify"
  /\ HasClient(acfg)
  /\ apc' = "exit"
  /\ authOutcome' = "OSError"
  /\ UNCHANGED <<persistentVars, syncVars, acfg, server, httpd, lpc, request, served,
                 auth_queue, firstCode, code, token_response, pending, exchangeCalls, obsVars>>

\* lines 106-120: the authorization URL is built and opened
AuthBrowserOpened ==
  /\ apc = "open"
  /\ apc' = "wait"
  /\ UNCHANGED <<persistentVars, syncVars, acfg, server, httpd, lpc, request, served,
                 auth_queue, firstCode, code, token_response, pending, authOutcome,
                 exchangeCalls, obsVars>>

\* how an exception of the try block reaches the finally clause
AuthRaise(exception) ==
  /\ pending' = exception
  /\ apc' = "finally"
  /\ UNCHANGED <<persistentVars, syncVars, acfg, server, httpd, lpc, request, served,
                 auth_queue, firstCode, code, token_response, authOutcome, obsVars>>

\* lines 106-117 raise
AuthOpenFailed ==
  /\ apc = "open"
  /\ UNCHANGED exchangeCalls
  /\ AuthRaise("OpenError")

\* line 121: a code is in the queue
AuthCodeReceived ==
  /\ apc = "wait"
  /\ auth_queue # <<>>
  /\ code' = Head(auth_queue)
  /\ auth_queue' = Tail(auth_queue)
  /\ apc' = "exchange"
  /\ UNCHANGED <<persistentVars, syncVars, acfg, server, httpd, lpc, request, served,
                 firstCode, token_response, pending, authOutcome, exchangeCalls, obsVars>>

\* the wait that ends without a code and is taken for an answer
AuthTimedOutExchanges ==
  /\ apc = "wait"
  /\ auth_queue = <<>>
  /\ apc' = "exchange"
  /\ UNCHANGED <<persistentVars, syncVars, acfg, server, httpd, lpc, request, served,
                 auth_queue, firstCode, code, token_response, pending, authOutcome,
                 exchangeCalls, obsVars>>

\* the timeout that leaves without the cleanup
AuthTimedOutNoCleanup ==
  /\ apc = "wait"
  /\ auth_queue = <<>>
  /\ apc' = "exit"
  /\ pending' = "Empty"
  /\ authOutcome' = "Empty"
  /\ UNCHANGED <<persistentVars, syncVars, acfg, server, httpd, lpc, request, served,
                 auth_queue, firstCode, code, token_response, exchangeCalls, obsVars>>

\* line 121 raises queue.Empty: the 60 seconds passed with the queue empty
AuthTimedOut ==
  /\ apc = "wait"
  /\ auth_queue = <<>>
  /\ UNCHANGED exchangeCalls
  /\ AuthRaise("Empty")

\* lines 125-129: the code is exchanged for tokens
AuthExchanged(tokens) ==
  /\ apc = "exchange"
  /\ exchangeCalls' = exchangeCalls + 1
  /\ token_response' = tokens
  /\ apc' = "update"
  /\ UNCHANGED <<persistentVars, syncVars, acfg, server, httpd, lpc, request, served,
                 auth_queue, firstCode, code, pending, authOutcome, obsVars>>

\* lines 125-129 raise: the provider refuses the code
AuthExchangeFailed ==
  /\ apc = "exchange"
  /\ exchangeCalls' = exchangeCalls + 1
  /\ AuthRaise("ExchangeError")

\* line 132: the tokens are written to the credentials file
AuthTokensSaved ==
  /\ apc = "update"
  /\ envFile' = update_env_file(envFile, token_response)
  /\ envWrites' = envWrites + 1
  /\ lastWrite' = [before |-> envFile, tokens |-> token_response]
  /\ persisted' = <<token_response.refresh_token>>
  /\ apc' = "finally"
  /\ UNCHANGED <<activitiesFile, syncVars, acfg, server, httpd, lpc, request, served,
                 auth_queue, firstCode, code, token_response, pending, authOutcome,
                 exchangeCalls, envAtStart>>

\* line 132 raises: the credentials file cannot be written
AuthSaveFailed ==
  /\ apc = "update"
  /\ UNCHANGED exchangeCalls
  /\ AuthRaise("WriteError")

\* lines 135-137: finally; server.shutdown() asks the serving loop to stop
AuthShutdown ==
  /\ apc = "finally"
  /\ IF server
     THEN /\ httpd' = [httpd EXCEPT !.shutdown_request = TRUE]
          /\ apc' = "shutdown"
          /\ UNCHANGED authOutcome
     ELSE /\ apc' = "exit"
          /\ authOutcome' = IF pending = "none" THEN "Authorized" ELSE pending
          /\ UNCHANGED httpd
  /\ UNCHANGED <<persistentVars, syncVars, acfg, server, lpc, request, served,
                 auth_queue, firstCode, code, token_response, pending, exchangeCalls, obsVars>>

\* lines 137-142: shutdown() returns once the loop has stopped; server_close()
AuthServerClosed ==
  /\ apc = "shutdown"
  /\ httpd.is_shut_down
  /\ httpd' = [httpd EXCEPT !.bound = FALSE]
  /\ apc' = "exit"
  /\ authOutcome' = IF pending = "none" THEN "Authorized" ELSE pending
  /\ UNCHANGED <<persistentVars, syncVars, acfg, server, lpc, request, served,
                 auth_queue, firstCode, code, token_response, pending, exchangeCalls, obsVars>>

\* the process ends; its daemon thread ends with it
AuthExit ==
  /\ apc = "exit"
  /\ apc' = "idle"
  /\ acfg' = LoadConfig(NoEnvFile)
  /\ server' = FALSE
  /\ httpd' = [bound |-> FALSE, shutdown_request |-> FALSE, is_shut_down |-> FALSE]
  /\ lpc' = "none"
  /\ request' = <<>>
  /\ served' = 0
  /\ auth_queue' = <<>>
  /\ firstCode' = ""
  /\ code' = ""
  /\ token_response' = NoTokens
  /\ pending' = "none"
  /\ authOutcome' = "none"
  /\ exchangeCalls' = 0
  /\ envAtStart' = envFile
  /\ envWrites' = 0
  /\ lastWrite' = [before |-> NoEnvFile, tokens |-> NoTokens]
  /\ UNCHANGED <<persistentVars, syncVars, persisted>>

\* serve_forever: a request is accepted (socketserver: the loop runs until
\* shutdown is requested)
ListenerAccept(req) ==
  /\ lpc = "serve"
  /\ ~httpd.shutdown_request
  /\ served < MaxRequests
  /\ request' = req
  /\ served' = served + 1
  /\ lpc' = "handle"
  /\ UNCHANGED <<persistentVars, syncVars, apc, acfg, server, httpd, auth_queue, firstCode, code,
                 token_response, pending, authOutcome, exchangeCalls, obsVars>>

\* lines 34-43: the handler answers and hands the code over
ListenerHandled ==
  /\ lpc = "handle"
  /\ auth_queue' = do_GET(auth_queue, request)
  /\ firstCode' = IF firstCode = "" /\ HasCode(request)
                   THEN NonBlank(request)[1] ELSE firstCode
  /\ request' = <<>>
  /\ lpc' = "serve"
  /\ UNCHANGED <<persistentVars, syncVars, apc, acfg, server, httpd, served, code,
                 token_response, pending, authOutcome, exchangeCalls, obsVars>>

\* a serving loop that never looks at the shutdown request
ListenerStoppedNever ==
  /\ lpc = "serve"
  /\ httpd.shutdown_request
  /\ UNCHANGED vars

\* serve_forever leaves its loop on the shutdown request
ListenerStopped ==
  /\ lpc = "serve"
  /\ httpd.shutdown_request
  /\ httpd' = [httpd EXCEPT !.shutdown_request = FALSE, !.is_shut_down = TRUE]
  /\ lpc' = "stopped"
  /\ UNCHANGED <<persistentVars, syncVars, apc, acfg, server, request, served,
                 auth_queue, firstCode, code, token_response, pending, authOutcome,
                 exchangeCalls, obsVars>>

NextAuth ==
  \/ AuthStart
  \/ AuthVerifyFailed
  \/ AuthServerStarted
  \/ AuthBindFailed
  \/ AuthBrowserOpened
  \/ AuthOpenFailed
  \/ AuthCodeReceived
  \/ AuthTimedOut
  \/ \E tokens \in TokenResponses : AuthExchanged(tokens)
  \/ AuthExchangeFailed
  \/ AuthTokensSaved
  \/ AuthSaveFailed
  \/ AuthShutdown
  \/ AuthServerClosed
  \/ AuthExit
  \/ \E req \in Requests : ListenerAccept(req)
  \/ ListenerHandled
  \/ ListenerStopped

SpecAuth == InitAuth /\ [][NextAuth]_vars

\* the steps of the main thread once the flow has started: each call returns or
\* raises, and the wait of line 121 ends with a code or with its timeout
MainFlowStep ==
  \/ AuthVerifyFailed
  \/ AuthServerStarted
  \/ AuthBindFailed
  \/ AuthBrowserOpened
  \/ AuthOpenFailed
  \/ AuthCodeReceived
  \/ AuthTimedOut
  \/ \E tokens \in TokenResponses : AuthExchanged(tokens)
  \/ AuthExchangeFailed
  \/ AuthTokensSaved
  \/ AuthSaveFailed
  \/ AuthShutdown
  \/ AuthServerClosed

\* the steps of the listener thread that do not wait for a client
ListenerStep == ListenerHandled \/ ListenerStopped

\* a credentials file with the client id and secret, and one without the secret
InitAuthFair ==
  /\ envFile \in {EnvFresh, EnvNoSecret}
  /\ activitiesFile = AbsentStore
  /\ InitSyncVars /\ InitAuthVars /\ InitObsVars

\* both threads are scheduled fairly; whether a flow is started, whether the
\* process is left and whether a request arrives is not up to the scheduler
FairSpecAuth ==
  InitAuthFair /\ [][NextAuth]_vars /\ WF_vars(MainFlowStep) /\ WF_vars(ListenerStep)

\* the two programs, run one at a time
Init ==
  /\ envFile \in {EnvFresh, EnvAuthorized, EnvNoSecret}
  /\ activitiesFile = AbsentStore
  /\ InitSyncVars /\ InitAuthVars /\ InitObsVars

Next == NextSync \/ NextAuth

Spec == Init /\ [][Next]_vars

\* ------------------------------------------------- properties of the sync run
Ids(records) == {records[i].id : i \in 1..Len(records)}
StoreIds(file) == Ids(load_existing_activities(file))
\* ids of the fetched activities that activity_to_dict converts
ConvertedIds(page) ==
  {page[i].id.v : i \in {j \in 1..Len(page) : ~activity_to_dict(page[j]).raised}}
SortedByDate(records) ==
  \A i \in 1..(Len(records) - 1) :
    StrLeq(records[i].start_date_local, records[i + 1].start_date_local)
IdSequence(records) == [i \in 1..Len(records) |-> records[i].id]
SyncEnded == pc = "exit"

\* C1: an incremental run that follows a completed incremental run with the same
\* limit and fetches the same page leaves the activities file exactly as the first
\* run left it, and none of the records it collects has an id already in the store
DedupIdempotence ==
  (SyncEnded /\ outcome = "Completed" /\ replay) =>
    /\ activitiesFile = fileAtStart
    /\ \A i \in 1..Len(new_activities) : new_activities[i].id \notin StoreIds(fileAtStart)

\* a second run over a page of two activities that the first run stored
DedupIdempotenceWitness ==
  /\ SyncEnded /\ outcome = "Completed" /\ replay
  /\ Len(strava_activities) = 2
  /\ ConvertedIds(strava_activities) = {10, 11}
  /\ StoreIds(activitiesFile) = {10, 11}

\* C2: no two records of the persisted store have the same id
IdUniqueness ==
  \A i, j \in 1..Len(activitiesFile.data) :
    i # j => activitiesFile.data[i].id # activitiesFile.data[j].id

\* C3: after a completed full refresh the ids of the store are exactly the ids of
\* the fetched activities that were converted, whatever the store held before
FullRefreshReplacement ==
  (SyncEnded /\ outcome = "Completed" /\ full_refresh) =>
    /\ activitiesFile.state = "json"
    /\ Ids(activitiesFile.data) = ConvertedIds(strava_activities)

\* a full refresh that drops an id the store held and the page does not
FullRefreshReplacementWitness ==
  /\ SyncEnded /\ outcome = "Completed" /\ full_refresh
  /\ StoreIds(fileAtStart) = {10, 11}
  /\ StoreIds(activitiesFile) = {11}

\* C4: whatever a run writes is in non-decreasing order of start_date_local as
\* strings; the empty store and the page <<10 of "02", 11 of "01">> give 11, 10
SortInvariant ==
  /\ (SyncEnded /\ storeWrites > 0) => SortedByDate(activitiesFile.data)
  /\ (SyncEnded /\ outcome = "Completed" /\ ~full_refresh /\ StoreIds(fileAtStart) = {}
        /\ strava_activities = <<Ride10, Run11>>) =>
       IdSequence(activitiesFile.data) = <<11, 10>>

\* the scenario of the two activities fetched newest first
SortInvariantWitness ==
  /\ SyncEnded /\ outcome = "Completed" /\ ~full_refresh /\ storeWrites = 1
  /\ fileAtStart = JsonStore(<<>>)
  /\ strava_activities = <<Ride10, Run11>>
  /\ IdSequence(activitiesFile.data) = <<11, 10>>

\* C9: a run whose fetch raised has not written the activities file, in either mode
FetchFailureLeavesStore ==
  (SyncEnded /\ outcome = "FetchError") =>
    /\ activitiesFile = fileAtStart
    /\ storeWrites = 0
    /\ new_activities = <<>>

\* a full refresh over a store of two records whose fetch raises
FetchFailureLeavesStoreWitness ==
  /\ SyncEnded /\ outcome = "FetchError" /\ full_refresh
  /\ Len(activitiesFile.data) = 2

\* C10 as stated: every run that has a stored refresh token performs exactly one
\* refresh exchange
SingleRefreshOfAnyRun ==
  /\ refreshCalls <= 1
  /\ (SyncEnded /\ cfg.REFRESH_TOKEN # <<>>) => refreshCalls = 1
  /\ (SyncEnded /\ outcome = "ConfigurationError" /\ refreshCalls = 1) =>
       (fetchCalls = 0 /\ envWrites = 0 /\ envFile = envAtStart
          /\ activitiesFile = fileAtStart)

\* C10, amended: a run that has the client id, the client secret and a stored
\* refresh token performs exactly one refresh exchange, never a second one; after
\* a rejected exchange the run has failed without a fetch and without a change
\* to the credentials file or the activities file
SingleRefreshAttempt ==
  /\ refreshCalls <= 1
  /\ (SyncEnded /\ HasClient(cfg) /\ cfg.REFRESH_TOKEN # <<>>) => refreshCalls = 1
  /\ (SyncEnded /\ outcome = "ConfigurationError" /\ refreshCalls = 1) =>
       (fetchCalls = 0 /\ envWrites = 0 /\ envFile = envAtStart
          /\ activitiesFile = fileAtStart)

\* a rejected refresh of a run over a store of two records
SingleRefreshAttemptWitness ==
  /\ SyncEnded /\ outcome = "ConfigurationError" /\ refreshCalls = 1
  /\ cfg.REFRESH_TOKEN = <<"r1">>
  /\ Len(activitiesFile.data) = 2

\* the fetched activities that activity_to_dict converts, by their place in the page
Converted(page) == {i \in 1..Len(page) : ~activity_to_dict(page[i]).raised}

\* C12: an incremental run that finds an activities file that is not JSON goes on
\* with an empty store: it completes, every fetched activity that converts is new,
\* and when the one activity fetched converts the file holds its record and
\* nothing else
CorruptStoreRecovery ==
  (SyncEnded /\ fileAtStart = CorruptStore /\ ~full_refresh /\ fetchCalls = 1
     /\ outcome # "FetchError") =>
    /\ outcome = "Completed"
    /\ Len(new_activities) = Cardinality(Converted(strava_activities))
    /\ (new_activities # <<>>) =>
         (activitiesFile.state = "json" /\ Len(activitiesFile.data) = Len(new_activities))
    /\ (Len(strava_activities) = 1 /\ Converted(strava_activities) = {1}) =>
         activitiesFile = JsonStore(<<activity_to_dict(strava_activities[1]).result>>)

\* the file was not JSON, one ride is fetched, the file holds the ride
CorruptStoreRecoveryWitness ==
  /\ SyncEnded /\ outcome = "Completed" /\ ~full_refresh
  /\ fileAtStart = CorruptStore
  /\ strava_activities = <<Ride10>>
  /\ activitiesFile.state = "json"
  /\ IdSequence(activitiesFile.data) = <<10>>

\* C14: an incremental run in which every converted activity already has its id in
\* the store, an empty page included, does not write the activities file, which
\* stays as it was; a run writes at most once, and only when it completed with a
\* new record or as a full refresh
NoOpSkip ==
  /\ (SyncEnded /\ outcome = "Completed" /\ ~full_refresh
        /\ ConvertedIds(strava_activities) \subseteq StoreIds(fileAtStart)) =>
       (storeWrites = 0 /\ activitiesFile = fileAtStart /\ new_activities = <<>>)
  /\ storeWrites <= 1
  /\ storeWrites = 1 =>
       (outcome = "Completed" /\ (new_activities # <<>> \/ full_refresh))
  /\ (pc # "idle" /\ activitiesFile # fileAtStart) => storeWrites = 1

\* the page holds an edited version of a stored activity and one that cannot be
\* converted: nothing is written
NoOpSkipWitness ==
  /\ SyncEnded /\ outcome = "Completed" /\ ~full_refresh
  /\ StoreIds(fileAtStart) = {10}
  /\ strava_activities = <<Ride10Edited, Broken>>
  /\ storeWrites = 0 /\ activitiesFile = fileAtStart

Range(seq) == {seq[i] : i \in 1..Len(seq)}
Count(r, seq) == Cardinality({i \in 1..Len(seq) : seq[i] = r})
\* how often the page holds an activity that converts to r, an id the store lacks
CountNew(r, page, file) ==
  Cardinality({i \in Converted(page) :
                 /\ activity_to_dict(page[i]).result = r
                 /\ r.id \notin StoreIds(file)})
ConvertedRecords(page) == {activity_to_dict(page[i]).result : i \in Converted(page)}

\* C15: what an incremental run writes is, as a multiset, the records the store
\* held, each unchanged, together with the records of the fetched activities that
\* converted and whose id the store did not hold
IncrementalMerge ==
  (SyncEnded /\ outcome = "Completed" /\ ~full_refresh /\ storeWrites = 1) =>
    /\ activitiesFile.state = "json"
    /\ \A r \in Range(activitiesFile.data)
                \cup Range(load_existing_activities(fileAtStart))
                \cup ConvertedRecords(strava_activities) :
         Count(r, activitiesFile.data) =
           Count(r, load_existing_activities(fileAtStart))
             + CountNew(r, strava_activities, fileAtStart)

\* the store held the ride; the page brings the ride edited and a run: the ride
\* stays as it was and the run is added
IncrementalMergeWitness ==
  /\ SyncEnded /\ outcome = "Completed" /\ ~full_refresh /\ storeWrites = 1
  /\ fileAtStart = JsonStore(<<activity_to_dict(Ride10).result>>)
  /\ strava_activities = <<Ride10Edited, Run11>>
  /\ IdSequence(activitiesFile.data) = <<11, 10>>
  /\ activitiesFile.data[2] = activity_to_dict(Ride10).result

\* C17: when the conversion of a fetched activity raises, the run still completes,
\* the activity leaves no record, and every other fetched activity that converts
\* is in the store afterwards: as its new record when the store did not hold its
\* id or the run is a full refresh
FailureIsolation ==
  (SyncEnded /\ fetchCalls = 1 /\ outcome # "FetchError"
     /\ Converted(strava_activities) # 1..Len(strava_activities)) =>
    /\ outcome = "Completed"
    /\ Len(new_activities) <= Cardinality(Converted(strava_activities))
    /\ Range(new_activities) \subseteq ConvertedRecords(strava_activities)
    /\ \A i \in Converted(strava_activities) :
         LET r == activity_to_dict(strava_activities[i]).result
         IN /\ r.id \in StoreIds(activitiesFile)
            /\ (full_refresh \/ r.id \notin StoreIds(fileAtStart)) =>
                 r \in Range(activitiesFile.data)

\* the first activity of the page cannot be converted, the second is stored
FailureIsolationWitness ==
  /\ SyncEnded /\ outcome = "Completed" /\ ~full_refresh
  /\ strava_activities = <<Broken, Ride10>>
  /\ StoreIds(fileAtStart) = {}
  /\ StoreIds(activitiesFile) = {10}

\* ------------------------------------------- properties of activity_to_dict
\* the value a key has when the attribute is not there
TypeDefault(key) ==
  IF key \in float_properties \cup str_properties THEN JNull
  ELSE IF key \in int_properties THEN JInt(0) ELSE JBool(FALSE)
Missing(x) == x = Absent \/ x = None
\* the activity differs from a complete one only in optional attributes, which
\* are missing or None
OnlyOptionalMissing(activity) ==
  \A key \in DOMAIN activity :
    \/ activity[key] = ActivityWith({}, Absent)[key]
    \/ key \in optional_properties /\ Missing(activity[key])

\* C13: whichever optional attributes of the fetched activity are missing or None,
\* the activity is converted, its record has every optional key, a key whose
\* attribute is missing or None has the default of its type (null for the floats
\* and the strings, 0 for the counts, false for the flags), and a key whose
\* attribute is there has its value
MissingFieldDefaulting ==
  (SyncEnded /\ Len(strava_activities) = 1 /\ fileAtStart = AbsentStore
     /\ OnlyOptionalMissing(strava_activities[1])) =>
    /\ outcome = "Completed" /\ Len(new_activities) = 1
    /\ optional_properties \subseteq DOMAIN new_activities[1]
    /\ \A key \in optional_properties :
         IF Missing(strava_activities[1][key])
         THEN new_activities[1][key] = TypeDefault(key)
         ELSE /\ new_activities[1][key] # JNull
              /\ key \in int_properties => new_activities[1][key] = JInt(2)

\* an activity without watts, without kudos_count and without the private flag
MissingFieldDefaultingWitness ==
  /\ SyncEnded /\ Len(new_activities) = 1
  /\ strava_activities[1].average_watts = Absent
  /\ strava_activities[1].kudos_count = Absent
  /\ strava_activities[1].private = Absent
  /\ strava_activities[1].calories = Num(3)
  /\ new_activities[1].average_watts = JNull
  /\ new_activities[1].kudos_count = JInt(0)
  /\ new_activities[1].private = JBool(FALSE)
  /\ new_activities[1].calories = JFloat(3)

\* float() or int() of one of the three core numbers raises
CoreFails(activity) ==
  \/ CoreNumRaises(activity.distance)
  \/ CoreIntRaises(activity.moving_time)
  \/ CoreIntRaises(activity.elapsed_time)
\* float() or int() of an optional attribute raises TypeError or ValueError
OptionalFails(activity, key) ==
  /\ key \in float_properties \cup int_properties
  /\ ~Missing(activity[key]) /\ NumRaises(activity[key])
\* int() of an optional count raises OverflowError
OptionalOverflows(activity) == \E key \in int_properties : IntOverflows(activity[key])
AllRecords == Range(new_activities) \cup Range(activitiesFile.data)

\* C19 as stated: every record has the seven core fields, and a conversion failure
\* of any field leaves a record of exactly those seven
RequiredCoreOnAnyFailure ==
  (SyncEnded /\ Len(strava_activities) = 1) =>
    /\ \A r \in AllRecords : core_properties \subseteq DOMAIN r
    /\ (CoreFails(strava_activities[1]) \/ OptionalOverflows(strava_activities[1])
          \/ \E key \in optional_properties : OptionalFails(strava_activities[1], key)) =>
         \A r \in AllRecords : DOMAIN r = core_properties

\* C19, amended: every record has the seven core fields; an activity whose id,
\* name, date and type convert always leaves a record and the run completes; when
\* a core number fails to convert, or an optional count overflows, the record has
\* exactly the seven core fields, the three numbers zero; when only optional
\* fields fail with TypeError or ValueError the record has every field, the
\* failing ones at their default
RequiredCore ==
  (SyncEnded /\ Len(strava_activities) = 1) =>
    LET activity == strava_activities[1]
    IN /\ \A r \in AllRecords : core_properties \subseteq DOMAIN r
       /\ outcome = "Completed"
       /\ activity.id.k = "num" =>
            (Len(new_activities) = 1 /\ activitiesFile = JsonStore(new_activities))
       /\ (CoreFails(activity) \/ OptionalOverflows(activity)) =>
            \A r \in AllRecords :
              /\ DOMAIN r = core_properties
              /\ r.distance = JFloat(0) /\ r.moving_time = JInt(0)
              /\ r.elapsed_time = JInt(0)
       /\ ~(CoreFails(activity) \/ OptionalOverflows(activity)) =>
            \A r \in AllRecords :
              /\ DOMAIN r = core_properties \cup optional_properties
              /\ \A key \in optional_properties :
                   OptionalFails(activity, key) => r[key] = TypeDefault(key)

\* the distance of the activity does not convert: the record written is the
\* seven core fields
RequiredCoreWitness ==
  /\ SyncEnded /\ Len(strava_activities) = 1
  /\ strava_activities[1].distance = Bad
  /\ strava_activities[1].average_watts = Bad
  /\ Len(activitiesFile.data) = 1
  /\ DOMAIN activitiesFile.data[1] = core_properties
  /\ activitiesFile.data[1].id = 12

\* ------------------------------------ properties of the authorization flow
\* and of the credentials file
AuthEnded == apc = "exit"
TokenKeys == {"ACCESS_TOKEN", "REFRESH_TOKEN"}
IsTokenLine(line) == IsBinding(line) /\ BindingKey(line) \in TokenKeys
\* the lines that are not ACCESS_TOKEN / REFRESH_TOKEN lines, in their order
RECURSIVE OtherLines(_)
OtherLines(lines) ==
  IF lines = <<>> THEN <<>>
  ELSE IF IsTokenLine(Head(lines)) THEN OtherLines(Tail(lines))
       ELSE <<Head(lines)>> \o OtherLines(Tail(lines))
\* a KEY=VALUE line, a comment or an empty line
WellFormedLine(line) ==
  \/ IsBinding(line)
  \/ StripLeft(StripNewline(line)) = <<>>
  \/ Head(StripLeft(StripNewline(line))) = "#"
NoKeyTwice(lines) ==
  \A i, j \in 1..Len(lines) :
    (i # j /\ IsBinding(lines[i]) /\ IsBinding(lines[j]))
      => BindingKey(lines[i]) # BindingKey(lines[j])

\* C5: after update_env_file has written, reading the file gives the new access
\* and refresh token, and the other lines are the ones of the file before, verbatim
\* and in their order
CredentialsRoundTrip ==
  envWrites > 0 =>
    /\ getenv(envFile, "ACCESS_TOKEN") = <<lastWrite.tokens.access_token>>
    /\ getenv(envFile, "REFRESH_TOKEN") = <<lastWrite.tokens.refresh_token>>
    /\ OtherLines(readlines(envFile)) = OtherLines(readlines(lastWrite.before))

\* C6: after update_env_file has written, every line of the file is well formed
\* and no key is bound twice
CredentialsFileInvariant ==
  envWrites > 0 =>
    /\ \A i \in 1..Len(readlines(envFile)) : WellFormedLine(readlines(envFile)[i])
    /\ NoKeyTwice(readlines(envFile))

\* C7: a flow that started the listener ends with the serving loop stopped and the
\* port released
ListenerTeardown ==
  (AuthEnded /\ server) => (~httpd.bound /\ lpc = "stopped" /\ httpd.is_shut_down)

\* a flow that timed out after the listener had served a request
ListenerTeardownWitness ==
  /\ AuthEnded /\ server /\ authOutcome = "Empty" /\ served > 0
  /\ ~httpd.bound /\ lpc = "stopped"

\* C8: a flow that ends by the timeout of the wait has exchanged no code and has
\* not written the credentials file; a flow that got past the start of the
\* listener and the browser without ever receiving a code ends by that timeout;
\* the credentials file is written only after a code was received and exchanged
AuthorizationTimeout ==
  /\ authOutcome = "Empty" =>
       (exchangeCalls = 0 /\ envWrites = 0 /\ envFile = envAtStart /\ code = "")
  /\ (AuthEnded /\ server /\ code = "" /\ authOutcome # "OpenError") =>
       authOutcome = "Empty"
  /\ (apc # "idle" /\ envWrites > 0) =>
       (code # "" /\ exchangeCalls = 1 /\ token_response \in TokenResponses)

\* the wait times out although a request without a code was served
AuthorizationTimeoutWitness ==
  /\ AuthEnded /\ authOutcome = "Empty" /\ served = MaxRequests
  /\ auth_queue = <<>> /\ envFile = envAtStart

\* C16: a request without a code leaves the queue and the waiter alone; the flow
\* takes at most one code from the queue and calls the token exchange at most
\* once; once a code has been put on the queue the wait returns a code and not the
\* timeout, the code it returns and exchanges is the first that was put, and the
\* codes put after it stay on the queue
FirstCodeWins ==
  /\ exchangeCalls <= 1
  /\ firstCode = "" =>
       (auth_queue = <<>> /\ code = "" /\ exchangeCalls = 0
          /\ apc \notin {"exchange", "update"})
  /\ (apc \in {"open", "wait"} /\ firstCode # "") =>
       (auth_queue # <<>> /\ Head(auth_queue) = firstCode /\ code = "")
  /\ code # "" => (code = firstCode /\ apc \notin {"idle", "verify", "open", "wait"})
  /\ (exchangeCalls = 1 \/ authOutcome = "Authorized") => (code # "" /\ code = firstCode)
  /\ \A i \in 1..Len(auth_queue) : auth_queue[i] # ""

\* the request with c2 came before the one with c1: c2 was exchanged, c1 is left
FirstCodeWinsWitness ==
  /\ AuthEnded /\ authOutcome = "Authorized" /\ exchangeCalls = 1
  /\ code = "c2" /\ firstCode = "c2"
  /\ auth_queue = <<"c1">>
  /\ served = MaxRequests

\* C20: under fair scheduling of the main thread and the listener thread a flow
\* that has started always reaches its end, with the tokens written or with a
\* failure, however many requests the listener serves: the wait ends and the
\* shutdown of the cleanup returns
AuthFlowTerminates ==
  (apc # "idle") ~>
    (/\ AuthEnded
     /\ authOutcome \in {"Authorized", "ValueError", "OSError", "OpenError", "Empty",
                          "ExchangeError", "WriteError"}
     /\ authOutcome = "Authorized" => envWrites = 1
     /\ server => (lpc = "stopped" /\ ~httpd.bound))

\* a flow that ended authorized after the listener had served every request that
\* can arrive
AuthFlowTerminatesWitness ==
  /\ AuthEnded /\ authOutcome = "Authorized" /\ envWrites = 1
  /\ served = MaxRequests
  /\ lpc = "stopped" /\ ~httpd.bound

\* ------------------------------------------------ properties of both programs
\* the symbols of `line` stand in `text` one after the other
Written(line, text) ==
  \E i \in 0..(Len(text) - Len(line)) : SubSeq(text, i + 1, i + Len(line)) = line

SyncConfigMissing == ~HasClient(cfg) \/ cfg.REFRESH_TOKEN = <<>>

\* C11: a sync run that lacks the client id, the client secret or the refresh
\* token never gets past the checks: it ends as a configuration error with no
\* refresh exchange, no fetch and both files as they were; an authorization flow
\* that lacks the client id or secret ends with the error before the listener is
\* bound or its thread started
ConfigurationErrorsAbort ==
  /\ (pc \notin {"idle", "verify", "get_token"} /\ SyncConfigMissing) =>
       /\ SyncEnded /\ outcome = "ConfigurationError"
       /\ refreshCalls = 0 /\ fetchCalls = 0 /\ storeWrites = 0 /\ envWrites = 0
       /\ envFile = envAtStart /\ activitiesFile = fileAtStart
  /\ (pc = "get_token" /\ SyncConfigMissing) =>
       (HasClient(cfg) /\ refreshCalls = 0 /\ envWrites = 0)
  /\ (apc \notin {"idle", "verify"} /\ ~HasClient(acfg)) =>
       /\ AuthEnded /\ authOutcome = "ValueError"
       /\ ~server /\ ~httpd.bound /\ lpc = "none"
       /\ exchangeCalls = 0 /\ envWrites = 0 /\ envFile = envAtStart

\* a run that holds a refresh token but no client secret has ended
ConfigurationErrorsAbortWitness ==
  /\ SyncEnded /\ outcome = "ConfigurationError"
  /\ ~HasClient(cfg) /\ cfg.REFRESH_TOKEN = <<"r0">>
  /\ refreshCalls = 0 /\ envFile = envAtStart

====
